---- MODULE Spec2Model ----
(***************************************************************************)
(* Model of build_4i2v_segment_workflow.py: the workflow patcher that      *)
(* loads a ComfyUI graph, writes image paths, motion preset values, output *)
(* modes and the output prefix into fixed nodes, and saves the result.     *)
(*                                                                         *)
(* JSON values are tagged records, so that Python's isinstance tests and   *)
(* the list / dict / absent distinction are decidable in the model:        *)
(*   Str(s)  a string          Num(n)  an int                              *)
(*   Flt(h)  a float, in hundredths (0.55 is Flt(55))                      *)
(*   List(s) a list            Dict(d) a dict (function on its keys)       *)
(*   None    Python's None / a key that .get() does not find               *)
(* A node is referred to by its index in `nodes` (Python mutates the node  *)
(* object in place; the index is the reference).                           *)
(***************************************************************************)
EXTENDS Integers, Sequences, FiniteSets, TLC

VARIABLES entry, args, inputFile, data, pc, idx, error, workflow, outputFile, stdout

vars == <<entry, args, inputFile, data, pc, idx, error, workflow, outputFile, stdout>>

----------------------------------------------------------------------------
(* JSON / Python values *)

Str(s) == [str |-> s]
Num(n) == [num |-> n]
Flt(h) == [flt |-> h]
List(s) == [list |-> s]
Dict(d) == [dict |-> d]
None == [none |-> TRUE]

EmptyMap == [k \in {} |-> None]

IsDict(v) == "dict" \in DOMAIN v
IsList(v) == "list" \in DOMAIN v

\* d[k] = v on a dict
Put(d, k, v) == [x \in (DOMAIN d) \cup {k} |-> IF x = k THEN v ELSE d[x]]

\* d.get(k) on a dict; None when the key is missing
Get(d, k) == IF k \in DOMAIN d THEN d[k] ELSE None

\* bool(s) for an optional string: None and "" are falsy
Truthy(v) == v # None /\ v # Str("")

----------------------------------------------------------------------------
(* Module constants *)

LOAD_IMAGE_START_IDS == <<142, 135>>
LOAD_IMAGE_END_IDS == <<680, 683>>
MOTION_VIDEO_NODE_ID == 568
CONTROLNET_APPLY_NODE_ID == 125
MOTION_SCALE_NODE_ID == 256
VIDEO_PREVIEW_NODE_ID == 53
VIDEO_FINAL_NODE_ID == 205
VIDEO_INTERPOLATED_NODE_ID == 219
VIDEO_UPSCALED_MODEL_NODE_ID == 272

MOTION_PRESETS ==
  [zoom |-> [video |-> "motions/zoom.mp4", controlnet_strength |-> Flt(55),
             controlnet_end |-> Flt(45), motion_scale |-> Flt(115)],
   rotate_left |-> [video |-> "motions/rotate_left.mp4", controlnet_strength |-> Flt(60),
             controlnet_end |-> Flt(55), motion_scale |-> Flt(112)],
   rotate_right |-> [video |-> "motions/rotate_right.mp4", controlnet_strength |-> Flt(60),
             controlnet_end |-> Flt(55), motion_scale |-> Flt(112)],
   up |-> [video |-> "motions/tilt_up.mp4", controlnet_strength |-> Flt(60),
             controlnet_end |-> Flt(55), motion_scale |-> Flt(110)],
   down |-> [video |-> "motions/tilt_down.mp4", controlnet_strength |-> Flt(60),
             controlnet_end |-> Flt(55), motion_scale |-> Flt(110)]]

QUALITY_CHOICES == {"sample", "full"}

----------------------------------------------------------------------------
(* Results of a call: the node list as the call left it, and the exception *)
(* it raised (type "" when it returned normally).                          *)

NoError == [type |-> "", node_id |-> 0]
Ok(nodes) == [nodes |-> nodes, err |-> NoError]
Raise(nodes, type) == [nodes |-> nodes, err |-> [type |-> type, node_id |-> 0]]
RaiseNotFound(nodes, node_id) == [nodes |-> nodes, err |-> [type |-> "ValueError", node_id |-> node_id]]

\* nodes with field k of node i set to v
SetField(nodes, i, k, v) == [nodes EXCEPT ![i] = Dict(Put(nodes[i].dict, k, v))]

\* the value node.setdefault(k, default) returns
SetDefault(node, k, default) == IF k \in DOMAIN node.dict THEN node.dict[k] ELSE default

----------------------------------------------------------------------------
(* find_node: index of the first node whose id is node_id, 0 when the loop *)
(* ends without a match (the caller raises ValueError).                    *)

RECURSIVE find_from(_, _, _)
find_from(nodes, node_id, i) ==
  IF i > Len(nodes) THEN 0
  ELSE IF Get(nodes[i].dict, "id") = Num(node_id) THEN i
  ELSE find_from(nodes, node_id, i + 1)

\* variant: the last match wins (a lookup table built by overwriting)
find_node_last(nodes, node_id) ==
  LET m == {i \in 1..Len(nodes) : Get(nodes[i].dict, "id") = Num(node_id)} IN
  IF m = {} THEN 0 ELSE CHOOSE i \in m : \A j \in m : j <= i

find_node(nodes, node_id) == find_from(nodes, node_id, 1)

----------------------------------------------------------------------------
(* set_load_image *)

\* variant: the second element is not appended to a one-element list
set_load_image_no_append(nodes, node_id, image_path) ==
  LET i == find_node(nodes, node_id) IN
  IF i = 0 THEN RaiseNotFound(nodes, node_id)
  ELSE
    LET widgets == SetDefault(nodes[i], "widgets_values", List(<<Str(""), Str("image")>>))
        w1 == IF Len(widgets.list) = 0
              THEN widgets.list \o <<Str(""), Str("image")>>
              ELSE widgets.list
    IN Ok(SetField(nodes, i, "widgets_values", List([w1 EXCEPT ![1] = Str(image_path)])))

set_load_image(nodes, node_id, image_path) ==
  LET i == find_node(nodes, node_id) IN
  IF i = 0 THEN RaiseNotFound(nodes, node_id)
  ELSE
    LET widgets == SetDefault(nodes[i], "widgets_values", List(<<Str(""), Str("image")>>))
        w1 == IF Len(widgets.list) = 0
              THEN widgets.list \o <<Str(""), Str("image")>>
              ELSE widgets.list
        w2 == [w1 EXCEPT ![1] = Str(image_path)]
        w3 == IF Len(w2) = 1 THEN Append(w2, Str("image")) ELSE w2
    IN Ok(SetField(nodes, i, "widgets_values", List(w3)))

----------------------------------------------------------------------------
(* set_motion_settings, in its three parts *)

\* variant: only None falls back to the preset, "" is taken as an override
resolve_video_unless_none(preset, override_video) ==
  IF override_video # None THEN override_video ELSE Str(preset.video)

\* line 89: override_video if override_video else preset["video"]
resolve_video(preset, override_video) ==
  IF Truthy(override_video) THEN override_video ELSE Str(preset.video)

\* lines 87-93: the motion-video node
set_motion_video(nodes, preset, override_video) ==
  LET i == find_node(nodes, MOTION_VIDEO_NODE_ID) IN
  IF i = 0 THEN RaiseNotFound(nodes, MOTION_VIDEO_NODE_ID)
  ELSE
    LET widgets == SetDefault(nodes[i], "widgets_values", Dict(EmptyMap))
        video_value == resolve_video(preset, override_video)
    IN
    IF ~IsDict(widgets)
    THEN Raise(nodes, "TypeError")      \* widgets["video"] on a list
    ELSE
      LET w1 == Put(widgets.dict, "video", video_value)
          n1 == SetField(nodes, i, "widgets_values", Dict(w1))
          vp == Get(w1, "videopreview")
      IN
      IF ~IsDict(vp) THEN Ok(n1)
      ELSE
        LET params == IF "params" \in DOMAIN vp.dict THEN vp.dict["params"] ELSE Dict(EmptyMap)
            vp1 == Put(vp.dict, "params", params)
            n2 == SetField(nodes, i, "widgets_values", Dict(Put(w1, "videopreview", Dict(vp1))))
        IN
        IF ~IsDict(params)
        THEN Raise(n2, "TypeError")     \* params["filename"] on a non-dict
        ELSE LET vp2 == Put(vp.dict, "params", Dict(Put(params.dict, "filename", video_value)))
             IN Ok(SetField(nodes, i, "widgets_values", Dict(Put(w1, "videopreview", Dict(vp2)))))

\* lines 99-100: while len(cn_widgets) < 3: cn_widgets.append(0)
RECURSIVE pad_to_3(_)
pad_to_3(s) == IF Len(s) < 3 THEN pad_to_3(Append(s, Num(0))) ELSE s

\* lines 95-101: the controlnet-apply node
set_controlnet(nodes, preset) ==
  LET i == find_node(nodes, CONTROLNET_APPLY_NODE_ID) IN
  IF i = 0 THEN RaiseNotFound(nodes, CONTROLNET_APPLY_NODE_ID)
  ELSE
    LET cn_widgets == SetDefault(nodes[i], "widgets_values", List(<<Flt(45), Num(0), Flt(35)>>))
    IN
    IF Len(cn_widgets.list) = 0
    THEN Raise(nodes, "IndexError")     \* cn_widgets[0] = ... on an empty list
    ELSE
      LET c1 == [cn_widgets.list EXCEPT ![1] = preset.controlnet_strength]
          c2 == pad_to_3(c1)
          c3 == [c2 EXCEPT ![3] = preset.controlnet_end]
      IN Ok(SetField(nodes, i, "widgets_values", List(c3)))

\* lines 103-105: the motion-scale node
set_motion_scale(nodes, preset) ==
  LET i == find_node(nodes, MOTION_SCALE_NODE_ID) IN
  IF i = 0 THEN RaiseNotFound(nodes, MOTION_SCALE_NODE_ID)
  ELSE
    LET motion_widgets == SetDefault(nodes[i], "widgets_values", List(<<Flt(100)>>))
    IN
    IF Len(motion_widgets.list) = 0
    THEN Raise(nodes, "IndexError")     \* motion_widgets[0] = ... on an empty list
    ELSE Ok(SetField(nodes, i, "widgets_values",
                     List([motion_widgets.list EXCEPT ![1] = preset.motion_scale])))

\* variant: the preset is looked up after the motion-video node
set_motion_settings_late_lookup(nodes, motion, override_video) ==
  IF find_node(nodes, MOTION_VIDEO_NODE_ID) = 0
  THEN RaiseNotFound(nodes, MOTION_VIDEO_NODE_ID)
  ELSE IF motion \notin DOMAIN MOTION_PRESETS
  THEN Raise(nodes, "KeyError")
  ELSE
    LET preset == MOTION_PRESETS[motion]
        r1 == set_motion_video(nodes, preset, override_video)
    IN
    IF r1.err # NoError THEN r1
    ELSE LET r2 == set_controlnet(r1.nodes, preset) IN
         IF r2.err # NoError THEN r2
         ELSE set_motion_scale(r2.nodes, preset)

set_motion_settings(nodes, motion, override_video) ==
  IF motion \notin DOMAIN MOTION_PRESETS
  THEN Raise(nodes, "KeyError")         \* MOTION_PRESETS[motion]
  ELSE
    LET preset == MOTION_PRESETS[motion]
        r1 == set_motion_video(nodes, preset, override_video)
    IN
    IF r1.err # NoError THEN r1
    ELSE LET r2 == set_controlnet(r1.nodes, preset) IN
         IF r2.err # NoError THEN r2
         ELSE set_motion_scale(r2.nodes, preset)

----------------------------------------------------------------------------
(* set_quality *)

\* variant: a richer mode matrix, full also enables the interpolated node
set_quality_interp_on_full(nodes, quality) ==
  LET preview == find_node(nodes, VIDEO_PREVIEW_NODE_ID)
      final == find_node(nodes, VIDEO_FINAL_NODE_ID)
      interp == find_node(nodes, VIDEO_INTERPOLATED_NODE_ID)
      upscaled_model == find_node(nodes, VIDEO_UPSCALED_MODEL_NODE_ID)
  IN
  IF preview = 0 THEN RaiseNotFound(nodes, VIDEO_PREVIEW_NODE_ID)
  ELSE IF final = 0 THEN RaiseNotFound(nodes, VIDEO_FINAL_NODE_ID)
  ELSE IF interp = 0 THEN RaiseNotFound(nodes, VIDEO_INTERPOLATED_NODE_ID)
  ELSE IF upscaled_model = 0 THEN RaiseNotFound(nodes, VIDEO_UPSCALED_MODEL_NODE_ID)
  ELSE Ok(SetField(SetField(SetField(SetField(nodes,
              preview, "mode", IF quality = "sample" THEN Num(0) ELSE Num(2)),
              final, "mode", IF quality = "sample" THEN Num(2) ELSE Num(0)),
              interp, "mode", IF quality = "sample" THEN Num(2) ELSE Num(0)),
              upscaled_model, "mode", Num(2)))

\* variant: each node's mode is written as soon as the node is found
set_quality_write_as_found(nodes, quality) ==
  LET preview == find_node(nodes, VIDEO_PREVIEW_NODE_ID)
      final == find_node(nodes, VIDEO_FINAL_NODE_ID)
      interp == find_node(nodes, VIDEO_INTERPOLATED_NODE_ID)
      upscaled_model == find_node(nodes, VIDEO_UPSCALED_MODEL_NODE_ID)
      n1 == SetField(nodes, preview, "mode", IF quality = "sample" THEN Num(0) ELSE Num(2))
      n2 == SetField(n1, final, "mode", IF quality = "sample" THEN Num(2) ELSE Num(0))
      n3 == SetField(n2, interp, "mode", Num(2))
  IN
  IF preview = 0 THEN RaiseNotFound(nodes, VIDEO_PREVIEW_NODE_ID)
  ELSE IF final = 0 THEN RaiseNotFound(n1, VIDEO_FINAL_NODE_ID)
  ELSE IF interp = 0 THEN RaiseNotFound(n2, VIDEO_INTERPOLATED_NODE_ID)
  ELSE IF upscaled_model = 0 THEN RaiseNotFound(n3, VIDEO_UPSCALED_MODEL_NODE_ID)
  ELSE Ok(SetField(n3, upscaled_model, "mode", Num(2)))

set_quality(nodes, quality) ==
  LET preview == find_node(nodes, VIDEO_PREVIEW_NODE_ID)
      final == find_node(nodes, VIDEO_FINAL_NODE_ID)
      interp == find_node(nodes, VIDEO_INTERPOLATED_NODE_ID)
      upscaled_model == find_node(nodes, VIDEO_UPSCALED_MODEL_NODE_ID)
  IN
  IF preview = 0 THEN RaiseNotFound(nodes, VIDEO_PREVIEW_NODE_ID)
  ELSE IF final = 0 THEN RaiseNotFound(nodes, VIDEO_FINAL_NODE_ID)
  ELSE IF interp = 0 THEN RaiseNotFound(nodes, VIDEO_INTERPOLATED_NODE_ID)
  ELSE IF upscaled_model = 0 THEN RaiseNotFound(nodes, VIDEO_UPSCALED_MODEL_NODE_ID)
  ELSE
    IF quality = "sample"
    THEN Ok(SetField(SetField(SetField(SetField(nodes,
              preview, "mode", Num(0)),
              final, "mode", Num(2)),
              interp, "mode", Num(2)),
              upscaled_model, "mode", Num(2)))
    ELSE Ok(SetField(SetField(SetField(SetField(nodes,
              preview, "mode", Num(2)),
              final, "mode", Num(0)),
              interp, "mode", Num(2)),
              upscaled_model, "mode", Num(2)))

----------------------------------------------------------------------------
(* set_output_prefix *)

\* the f-string of line 133, with suffix = f"{motion}_{quality}"
filename_prefix(motion, quality) ==
  "%date:yyyy-MM-dd%/" \o quality \o "/" \o (motion \o "_" \o quality) \o "/AD"

\* variant: node.setdefault("widgets_values", {}) in place of node.get
set_output_prefix_on_setdefault(nodes, node_id, motion, quality) ==
  LET i == find_node(nodes, node_id) IN
  IF i = 0 THEN RaiseNotFound(nodes, node_id)
  ELSE
    LET widgets == SetDefault(nodes[i], "widgets_values", Dict(EmptyMap)) IN
    IF IsDict(widgets)
    THEN Ok(SetField(nodes, i, "widgets_values",
                     Dict(Put(widgets.dict, "filename_prefix", Str(filename_prefix(motion, quality))))))
    ELSE Ok(nodes)

\* one iteration of the loop of lines 129-133
set_output_prefix_on(nodes, node_id, motion, quality) ==
  LET i == find_node(nodes, node_id) IN
  IF i = 0 THEN RaiseNotFound(nodes, node_id)
  ELSE
    \* node.get("widgets_values", {}): a missing field gives a fresh dict
    \* that is not stored in the node
    LET widgets == Get(nodes[i].dict, "widgets_values") IN
    IF widgets = None THEN Ok(nodes)
    ELSE IF IsDict(widgets)
    THEN Ok(SetField(nodes, i, "widgets_values",
                     Dict(Put(widgets.dict, "filename_prefix", Str(filename_prefix(motion, quality))))))
    ELSE Ok(nodes)

set_output_prefix(nodes, motion, quality) ==
  LET r1 == set_output_prefix_on(nodes, VIDEO_PREVIEW_NODE_ID, motion, quality) IN
  IF r1.err # NoError THEN r1
  ELSE set_output_prefix_on(r1.nodes, VIDEO_FINAL_NODE_ID, motion, quality)

----------------------------------------------------------------------------
(* Inputs: a base graph and command line, and bounded departures from them *)

MaxEdits == 2

RecognizedIds == <<142, 135, 680, 683, 568, 125, 256, 53, 205, 219, 272>>

Node(id, type, mode, widgets) ==
  Dict([id |-> Num(id), type |-> Str(type), mode |-> Num(mode), widgets_values |-> widgets])

LoaderWidgets == List(<<Str("old.png"), Str("image")>>)

OutputWidgets == Dict([filename_prefix |-> Str("AD"), frame_rate |-> Num(8)])

BaseNodes ==
  << Node(142, "LoadImage", 0, LoaderWidgets),
     Node(135, "LoadImage", 0, LoaderWidgets),
     Node(680, "LoadImage", 0, LoaderWidgets),
     Node(683, "LoadImage", 0, LoaderWidgets),
     Node(568, "VHS_LoadVideoPath", 0,
          Dict([video |-> Str("motions/old.mp4"),
                videopreview |-> Dict([hidden |-> Num(0),
                                       params |-> Dict([filename |-> Str("motions/old.mp4"),
                                                        type |-> Str("path")])])])),
     Node(125, "ControlNetApplyAdvanced", 0, List(<<Flt(50), Flt(10), Flt(90)>>)),
     Node(256, "ADE_MultivalDynamic", 0, List(<<Flt(100)>>)),
     Node(53, "VHS_VideoCombine", 0, OutputWidgets),
     Node(205, "VHS_VideoCombine", 2, OutputWidgets),
     Node(219, "VHS_VideoCombine", 2, OutputWidgets),
     Node(272, "VHS_VideoCombine", 2, OutputWidgets),
     Node(999, "Note", 0, List(<<Str("keep me")>>)) >>

BaseCfg ==
  [motion |-> "zoom", quality |-> "sample", motion_video |-> None,
   file |-> "json", has_nodes |-> TRUE, nodes |-> BaseNodes]

\* widgets_values shapes tried on the nodes; None removes the field
LoaderShapes ==
  << None, List(<<>>), List(<<Str("old.png")>>),
     List(<<Str("old.png"), Str("upload")>>),
     List(<<Str("old.png"), Str("image"), Str("extra")>>) >>

VideoShapes ==
  << None, Dict(EmptyMap),
     Dict([videopreview |-> Str("none")]),
     Dict([videopreview |-> Dict([hidden |-> Num(0)])]),
     Dict([videopreview |-> Dict([params |-> List(<<>>)])]),
     List(<<Str("motions/old.mp4")>>) >>

ControlnetShapes ==
  << None, List(<<>>), List(<<Flt(50)>>), List(<<Flt(50), Flt(10)>>),
     List(<<Flt(50), Flt(10), Flt(90), Flt(70)>>) >>

ScaleShapes == << None, List(<<>>) >>

OutputShapes == << None, List(<<Num(8), Str("AD")>>) >>

ModeEdits ==
  << [op |-> "mode", id |-> 53, val |-> None], [op |-> "mode", id |-> 53, val |-> Num(4)],
     [op |-> "mode", id |-> 205, val |-> Num(0)],
     [op |-> "mode", id |-> 219, val |-> None], [op |-> "mode", id |-> 219, val |-> Num(0)],
     [op |-> "mode", id |-> 272, val |-> Num(0)] >>

WidgetEdits(ids, shapes) ==
  [k \in 1..(Len(ids) * Len(shapes)) |->
     [op |-> "widgets", id |-> ids[((k - 1) \div Len(shapes)) + 1],
      val |-> shapes[((k - 1) % Len(shapes)) + 1]]]

NodeEdits(op, ids) == [k \in 1..Len(ids) |-> [op |-> op, id |-> ids[k]]]

Edits ==
  << [op |-> "motion", val |-> "rotate_left"], [op |-> "motion", val |-> "rotate_right"],
     [op |-> "motion", val |-> "up"], [op |-> "motion", val |-> "down"],
     [op |-> "motion", val |-> "spin"],
     [op |-> "quality", val |-> "full"], [op |-> "quality", val |-> "ultra"],
     [op |-> "motion_video", val |-> Str("")], [op |-> "motion_video", val |-> Str("custom.mp4")],
     [op |-> "file", val |-> "missing"], [op |-> "file", val |-> "garbage"],
     [op |-> "no_nodes"] >>
  \o WidgetEdits(<<142>>, LoaderShapes)
  \o WidgetEdits(<<683>>, <<None, List(<<Str("old.png"), Str("upload")>>)>>)
  \o WidgetEdits(<<568>>, VideoShapes)
  \o WidgetEdits(<<125>>, ControlnetShapes)
  \o WidgetEdits(<<256>>, ScaleShapes)
  \o WidgetEdits(<<53, 205>>, OutputShapes)
  \o ModeEdits
  \o NodeEdits("delete", RecognizedIds)
  \o NodeEdits("duplicate", <<142, 683, 568, 125, 256, 53, 219>>)
  \o << [op |-> "reverse"] >>

RemoveKey(d, k) == [x \in (DOMAIN d) \ {k} |-> d[x]]

RemoveAt(s, i) == [j \in 1..(Len(s) - 1) |-> IF j < i THEN s[j] ELSE s[j + 1]]

Reverse(s) == [j \in 1..Len(s) |-> s[Len(s) + 1 - j]]

EditNodeField(nodes, id, k, v) ==
  LET i == find_from(nodes, id, 1) IN
  IF i = 0 THEN nodes
  ELSE IF v = None THEN [nodes EXCEPT ![i] = Dict(RemoveKey(nodes[i].dict, k))]
  ELSE [nodes EXCEPT ![i] = Dict(Put(nodes[i].dict, k, v))]

ApplyEdit(cfg, e) ==
  CASE e.op = "motion" -> [cfg EXCEPT !.motion = e.val]
    [] e.op = "quality" -> [cfg EXCEPT !.quality = e.val]
    [] e.op = "motion_video" -> [cfg EXCEPT !.motion_video = e.val]
    [] e.op = "file" -> [cfg EXCEPT !.file = e.val]
    [] e.op = "no_nodes" -> [cfg EXCEPT !.has_nodes = FALSE]
    [] e.op = "widgets" -> [cfg EXCEPT !.nodes = EditNodeField(@, e.id, "widgets_values", e.val)]
    [] e.op = "mode" -> [cfg EXCEPT !.nodes = EditNodeField(@, e.id, "mode", e.val)]
    [] e.op = "delete" ->
         LET i == find_from(cfg.nodes, e.id, 1) IN
         IF i = 0 THEN cfg ELSE [cfg EXCEPT !.nodes = RemoveAt(@, i)]
    [] e.op = "duplicate" ->
         [cfg EXCEPT !.nodes = Append(@, Dict([id |-> Num(e.id), type |-> Str("Duplicate")]))]
    [] e.op = "reverse" -> [cfg EXCEPT !.nodes = Reverse(@)]

RECURSIVE ApplyEdits(_, _)
ApplyEdits(cfg, s) ==
  IF s = <<>> THEN cfg ELSE ApplyEdits(ApplyEdit(cfg, Edits[Head(s)]), Tail(s))

\* increasing sequences of at most k edit indices
RECURSIVE EditChoices(_)
EditChoices(k) ==
  IF k = 0 THEN {<<>>}
  ELSE LET P == EditChoices(k - 1) IN
       P \cup { Append(c[1], c[2]) :
                  c \in { d \in P \X (1..Len(Edits)) :
                            /\ Len(d[1]) = k - 1
                            /\ (d[1] = <<>> \/ d[1][Len(d[1])] < d[2]) } }

Document(cfg) ==
  LET rest == [links |-> List(<<List(<<Num(1), Num(142), Num(125)>>)>>),
               last_node_id |-> Num(999)]
  IN IF cfg.has_nodes THEN Dict(Put(rest, "nodes", List(cfg.nodes))) ELSE Dict(rest)

\* what the base-workflow path holds: None when there is no such file,
\* Str for text that is not JSON, else the document the text denotes
FileOf(cfg) ==
  CASE cfg.file = "missing" -> None
    [] cfg.file = "garbage" -> Str("<html>")
    [] OTHER -> Document(cfg)

\* A run starts in main, or in build_workflow called directly.  A direct call
\* with arguments main accepts does what main's call does, so direct calls
\* are taken for the arguments that argparse keeps main from passing on.
Init ==
  \E c \in EditChoices(MaxEdits), e \in {"main", "build_workflow"} :
    LET cfg == ApplyEdits(BaseCfg, c) IN
    /\ e = "build_workflow" =>
         cfg.motion \notin DOMAIN MOTION_PRESETS \/ cfg.quality \notin QUALITY_CHOICES
    /\ entry = e
    /\ args = [start_image |-> "start.png", end_image |-> "end.png",
               motion |-> cfg.motion, quality |-> cfg.quality,
               motion_video |-> cfg.motion_video, output |-> "out.json"]
    /\ inputFile = FileOf(cfg)
    /\ data = None
    /\ pc = IF e = "main" THEN "parse_args" ELSE "load"
    /\ idx = 1
    /\ error = NoError
    /\ workflow = None
    /\ outputFile = None
    /\ stdout = <<>>

----------------------------------------------------------------------------
(* The run *)

Nodes(doc) == doc.dict["nodes"].list

WithNodes(doc, nodes) == Dict(Put(doc.dict, "nodes", List(nodes)))

\* parse_args: argparse rejects a --motion or --quality outside its choices
ParseArgs ==
  /\ pc = "parse_args" /\ error = NoError
  /\ IF args.motion \in DOMAIN MOTION_PRESETS /\ args.quality \in QUALITY_CHOICES
     THEN pc' = "load" /\ error' = NoError
     ELSE pc' = pc /\ error' = [type |-> "SystemExit", node_id |-> 0]
  /\ UNCHANGED <<entry, args, inputFile, data, idx, workflow, outputFile, stdout>>

\* build_workflow, lines 144-145
Load ==
  /\ pc = "load" /\ error = NoError
  /\ IF inputFile = None
     THEN error' = [type |-> "FileNotFoundError", node_id |-> 0] /\ UNCHANGED <<data, pc>>
     ELSE IF ~IsDict(inputFile)
     THEN error' = [type |-> "JSONDecodeError", node_id |-> 0] /\ UNCHANGED <<data, pc>>
     ELSE IF "nodes" \notin DOMAIN inputFile.dict
     THEN error' = [type |-> "KeyError", node_id |-> 0] /\ data' = inputFile /\ pc' = pc
     ELSE error' = NoError /\ data' = inputFile /\ pc' = "start"
  /\ UNCHANGED <<entry, args, inputFile, idx, workflow, outputFile, stdout>>

\* one iteration of the loop of lines 147-148
StartImage ==
  /\ pc = "start" /\ error = NoError
  /\ LET r == set_load_image(Nodes(data), LOAD_IMAGE_START_IDS[idx], args.start_image) IN
     /\ data' = WithNodes(data, r.nodes)
     /\ error' = r.err
     /\ IF r.err # NoError THEN UNCHANGED <<pc, idx>>
        ELSE IF idx < Len(LOAD_IMAGE_START_IDS) THEN pc' = pc /\ idx' = idx + 1
        ELSE pc' = "end" /\ idx' = 1
  /\ UNCHANGED <<entry, args, inputFile, workflow, outputFile, stdout>>

\* one iteration of the loop of lines 149-150
EndImage ==
  /\ pc = "end" /\ error = NoError
  /\ LET r == set_load_image(Nodes(data), LOAD_IMAGE_END_IDS[idx], args.end_image) IN
     /\ data' = WithNodes(data, r.nodes)
     /\ error' = r.err
     /\ IF r.err # NoError THEN UNCHANGED <<pc, idx>>
        ELSE IF idx < Len(LOAD_IMAGE_END_IDS) THEN pc' = pc /\ idx' = idx + 1
        ELSE pc' = "motion" /\ idx' = 1
  /\ UNCHANGED <<entry, args, inputFile, workflow, outputFile, stdout>>

\* line 152
MotionSettings ==
  /\ pc = "motion" /\ error = NoError
  /\ LET r == set_motion_settings(Nodes(data), args.motion, args.motion_video) IN
     /\ data' = WithNodes(data, r.nodes)
     /\ error' = r.err
     /\ pc' = IF r.err # NoError THEN pc ELSE "quality"
  /\ UNCHANGED <<entry, args, inputFile, idx, workflow, outputFile, stdout>>

\* line 153
Quality ==
  /\ pc = "quality" /\ error = NoError
  /\ LET r == set_quality(Nodes(data), args.quality) IN
     /\ data' = WithNodes(data, r.nodes)
     /\ error' = r.err
     /\ pc' = IF r.err # NoError THEN pc ELSE "prefix"
  /\ UNCHANGED <<entry, args, inputFile, idx, workflow, outputFile, stdout>>

\* line 154
OutputPrefix ==
  /\ pc = "prefix" /\ error = NoError
  /\ LET r == set_output_prefix(Nodes(data), args.motion, args.quality) IN
     /\ data' = WithNodes(data, r.nodes)
     /\ error' = r.err
     /\ pc' = IF r.err # NoError THEN pc ELSE "return"
  /\ UNCHANGED <<entry, args, inputFile, idx, workflow, outputFile, stdout>>

\* variant: only the node list is returned
Return_nodes_only ==
  /\ pc = "return" /\ error = NoError
  /\ workflow' = Dict([nodes |-> data.dict["nodes"]])
  /\ pc' = IF entry = "main" THEN "write" ELSE "done"
  /\ UNCHANGED <<entry, args, inputFile, data, idx, error, outputFile, stdout>>

\* line 155: build_workflow returns the document it mutated
Return ==
  /\ pc = "return" /\ error = NoError
  /\ workflow' = data
  /\ pc' = IF entry = "main" THEN "write" ELSE "done"
  /\ UNCHANGED <<entry, args, inputFile, data, idx, error, outputFile, stdout>>

\* variant: the document in memory is written in a finally clause, whether
\* or not build_workflow raised
WriteOutput_finally ==
  /\ entry = "main" /\ outputFile = None
  /\ \/ pc = "write" /\ error = NoError /\ outputFile' = workflow /\ pc' = "print"
     \/ error # NoError /\ IsDict(data) /\ outputFile' = data /\ pc' = pc
  /\ UNCHANGED <<entry, args, inputFile, data, idx, error, workflow, stdout>>

\* line 180: the output file then holds the text of the returned document
WriteOutput ==
  /\ pc = "write" /\ error = NoError
  /\ outputFile' = workflow
  /\ pc' = "print"
  /\ UNCHANGED <<entry, args, inputFile, data, idx, error, workflow, stdout>>

\* line 181
PrintConfirmation ==
  /\ pc = "print" /\ error = NoError
  /\ stdout' = Append(stdout, "Generated workflow: " \o args.output)
  /\ pc' = "done"
  /\ UNCHANGED <<entry, args, inputFile, data, idx, error, workflow, outputFile>>

Next ==
  \/ ParseArgs
  \/ Load
  \/ StartImage
  \/ EndImage
  \/ MotionSettings
  \/ Quality
  \/ OutputPrefix
  \/ Return
  \/ WriteOutput
  \/ PrintConfirmation

Spec == Init /\ [][Next]_vars

----------------------------------------------------------------------------
(* Vocabulary of the properties *)

\* position of the run: the step with number n has completed iff StepNo > n
\* (pc stays at the step that raised)
StepNo ==
  CASE pc = "parse_args" -> 0
    [] pc = "load" -> 1
    [] pc = "start" -> 1 + idx
    [] pc = "end" -> 3 + idx
    [] pc = "motion" -> 6
    [] pc = "quality" -> 7
    [] pc = "prefix" -> 8
    [] pc = "return" -> 9
    [] pc = "write" -> 10
    [] pc = "print" -> 11
    [] OTHER -> 12

Completed(n) == StepNo > n

\* the step the run is at has been attempted and raised
Failed == error # NoError

HasNodes(doc) == IsDict(doc) /\ "nodes" \in DOMAIN doc.dict

Loaded == HasNodes(data)

Now == Nodes(data)

Was == Nodes(inputFile)

IdOf(node) == Get(node.dict, "id")

Present(nodes, id) == \E i \in 1..Len(nodes) : IdOf(nodes[i]) = Num(id)

FirstIndex(nodes, id) ==
  IF Present(nodes, id)
  THEN CHOOSE i \in 1..Len(nodes) :
         /\ IdOf(nodes[i]) = Num(id)
         /\ \A j \in 1..(i - 1) : IdOf(nodes[j]) # Num(id)
  ELSE 0

Field(nodes, id, k) ==
  LET i == FirstIndex(nodes, id) IN IF i = 0 THEN None ELSE Get(nodes[i].dict, k)

Widgets(nodes, id) == Field(nodes, id, "widgets_values")

Mode(nodes, id) == Field(nodes, id, "mode")

\* v[k] for a dict v, None otherwise
At(v, k) == IF IsDict(v) THEN Get(v.dict, k) ELSE None

\* v[n] (1-based) for a list v, None otherwise
Elem(v, n) == IF IsList(v) /\ n <= Len(v.list) THEN v.list[n] ELSE None

Size(v) == IF IsList(v) THEN Len(v.list) ELSE 0

KnownMotion == args.motion \in {"zoom", "rotate_left", "rotate_right", "up", "down"}

LoaderIds == {142, 135, 680, 683}

OutputIds == {53, 205, 219, 272}

AllIds == LoaderIds \cup OutputIds \cup {568, 125, 256}

PathFor(id) == IF id \in {142, 135} THEN args.start_image ELSE args.end_image

\* number of the step that writes the loader node id
LoaderStep(id) == CASE id = 142 -> 2 [] id = 135 -> 3 [] id = 680 -> 4 [] OTHER -> 5

ExpectedVideo ==
  IF args.motion_video \in {None, Str("")}
  THEN Str(CASE args.motion = "zoom" -> "motions/zoom.mp4"
             [] args.motion = "rotate_left" -> "motions/rotate_left.mp4"
             [] args.motion = "rotate_right" -> "motions/rotate_right.mp4"
             [] args.motion = "up" -> "motions/tilt_up.mp4"
             [] OTHER -> "motions/tilt_down.mp4")
  ELSE args.motion_video

ExpectedStrength == IF args.motion = "zoom" THEN Flt(55) ELSE Flt(60)

ExpectedEnd == IF args.motion = "zoom" THEN Flt(45) ELSE Flt(55)

ExpectedScale ==
  CASE args.motion = "zoom" -> Flt(115)
    [] args.motion \in {"rotate_left", "rotate_right"} -> Flt(112)
    [] OTHER -> Flt(110)

ExpectedMode(id) ==
  IF (id = 53 /\ args.quality = "sample") \/ (id = 205 /\ args.quality = "full")
  THEN Num(0) ELSE Num(2)

\* the writes of steps (a)-(d) are all visible in doc
MutationsApplied(doc) ==
  /\ HasNodes(doc)
  /\ \A id \in AllIds : Present(Nodes(doc), id)
  /\ \A id \in LoaderIds : Elem(Widgets(Nodes(doc), id), 1) = Str(PathFor(id))
  /\ At(Widgets(Nodes(doc), 568), "video") = ExpectedVideo
  /\ Elem(Widgets(Nodes(doc), 125), 1) = ExpectedStrength
  /\ Elem(Widgets(Nodes(doc), 125), 3) = ExpectedEnd
  /\ Elem(Widgets(Nodes(doc), 256), 1) = ExpectedScale
  /\ \A id \in OutputIds : Mode(Nodes(doc), id) = ExpectedMode(id)

----------------------------------------------------------------------------
\* C1: a run that fails (argument rejected, input missing or not JSON, a
\* recognized node absent, ...) writes no output file and prints no
\* confirmation; an output file exists only once steps (a)-(e) have all
\* succeeded, and it then holds the fully mutated document.
C1_OutputOnlyAfterAllSteps ==
  /\ Failed => outputFile = None /\ stdout = <<>>
  /\ outputFile # None =>
       /\ ~Failed /\ Completed(8)
       /\ KnownMotion /\ args.quality \in {"sample", "full"}
       /\ MutationsApplied(outputFile)
  /\ stdout # <<>> => outputFile # None

\* a run from the command line that got through steps (a)-(c) in memory and
\* then failed on a missing output node
C1_Witness ==
  /\ entry = "main" /\ pc = "quality" /\ error.type = "ValueError"
  /\ data # inputFile
  /\ outputFile = None /\ stdout = <<>>

----------------------------------------------------------------------------
\* the parts of set_motion_settings before and after the controlnet node
\* find nothing to fail on: node 568 has no widgets_values or a dict whose
\* videopreview.params, if any, is a dict; node 256 has no widgets_values or
\* a non-empty list
VideoNodeUsable ==
  /\ Present(Was, 568)
  /\ LET w == Widgets(Was, 568) IN
     \/ w = None
     \/ /\ IsDict(w)
        /\ IsDict(At(w, "videopreview")) =>
             At(At(w, "videopreview"), "params") = None \/ IsDict(At(At(w, "videopreview"), "params"))

ScaleNodeUsable ==
  /\ Present(Was, 256)
  /\ Widgets(Was, 256) = None \/ Size(Widgets(Was, 256)) > 0

\* C2 (as claimed): for each preset and every controlnet node (125) whose
\* widgets_values is absent or a list of any length, the empty list included,
\* applying motion settings succeeds and leaves a list of length >= 3 with
\* element 0 the preset's controlnet_strength and element 2 its
\* controlnet_end; element 1 keeps its prior value when it existed and is 0
\* when it was padded or the field was absent.
C2_ControlnetAnyLength ==
  (/\ Loaded /\ KnownMotion /\ (Completed(6) \/ (pc = "motion" /\ Failed))
   /\ VideoNodeUsable /\ ScaleNodeUsable
   /\ Present(Was, 125)
   /\ Widgets(Was, 125) = None \/ IsList(Widgets(Was, 125)))
  =>
  LET before == Widgets(Was, 125)
      after == Widgets(Now, 125)
  IN
  /\ Completed(6)
  /\ IsList(after) /\ Size(after) >= 3
  /\ Elem(after, 1) = ExpectedStrength
  /\ Elem(after, 3) = ExpectedEnd
  /\ Elem(after, 2) = IF Size(before) >= 2 THEN Elem(before, 2) ELSE Num(0)

----------------------------------------------------------------------------
\* C3 (as claimed): after the image-slot setter the loader node's
\* widgets_values is exactly [path, "image"], whatever it was before.
C3_ExactlyPathImage ==
  \A id \in LoaderIds :
    (Loaded /\ Completed(LoaderStep(id))) =>
      Widgets(Now, id) = List(<<Str(PathFor(id)), Str("image")>>)

\* C3 (amended): after the image-slot setter the loader node's widgets_values
\* is a list of at least 2 elements whose element 0 is the path; it is
\* exactly [path, "image"] when the field was absent, empty or had one
\* element, and otherwise keeps its length and every element after the first.
C3_PathFirstRestKept ==
  \A id \in LoaderIds :
    (Loaded /\ Completed(LoaderStep(id))) =>
      LET before == Widgets(Was, id)
          after == Widgets(Now, id)
      IN
      /\ IsList(after) /\ Size(after) >= 2
      /\ Elem(after, 1) = Str(PathFor(id))
      /\ Size(before) <= 1 => after = List(<<Str(PathFor(id)), Str("image")>>)
      /\ Size(before) >= 2 =>
           /\ Size(after) = Size(before)
           /\ \A n \in 2..Size(before) : Elem(after, n) = Elem(before, n)

\* the setter has run on a loader whose second element was not "image"
C3_Witness ==
  /\ Loaded /\ Completed(LoaderStep(683))
  /\ Widgets(Was, 683) = List(<<Str("old.png"), Str("upload")>>)
  /\ Widgets(Now, 683) = List(<<Str("end.png"), Str("upload")>>)

----------------------------------------------------------------------------
\* C4: after the quality/mode setter, whatever the four output nodes' prior
\* modes: sample gives preview (53) mode 0 and final (205) mode 2, full gives
\* preview 2 and final 0, interpolated (219) and upscaled (272) are 2 in both
\* cases, so exactly one of the four is enabled.
C4_ModeTable ==
  (Loaded /\ Completed(7) /\ args.quality \in {"sample", "full"}) =>
    /\ args.quality = "sample" => Mode(Now, 53) = Num(0) /\ Mode(Now, 205) = Num(2)
    /\ args.quality = "full" => Mode(Now, 53) = Num(2) /\ Mode(Now, 205) = Num(0)
    /\ Mode(Now, 219) = Num(2) /\ Mode(Now, 272) = Num(2)
    /\ Cardinality({id \in OutputIds : Mode(Now, id) = Num(0)}) = 1

\* quality full applied where the interpolated node had no mode field
C4_Witness ==
  /\ Loaded /\ Completed(7) /\ args.quality = "full"
  /\ Mode(Was, 219) = None
  /\ Mode(Now, 219) = Num(2) /\ Mode(Now, 205) = Num(0)

----------------------------------------------------------------------------
\* C5: after applying motion settings the motion-video node's (568) video
\* key is the override when one is supplied and non-empty, else the preset's
\* video path; when its videopreview is a mapping, videopreview.params.filename
\* is that same value (params created if absent); a missing or non-mapping
\* videopreview is left as it was.
C5_VideoValue ==
  (Loaded /\ Completed(6)) =>
    LET before == Widgets(Was, 568)
        after == Widgets(Now, 568)
        value == IF args.motion_video # None /\ args.motion_video # Str("")
                 THEN args.motion_video
                 ELSE Str(MOTION_PRESETS[args.motion].video)
    IN
    /\ At(after, "video") = value
    /\ IF IsDict(At(before, "videopreview"))
       THEN At(At(At(after, "videopreview"), "params"), "filename") = value
       ELSE At(after, "videopreview") = At(before, "videopreview")

\* an override applied to a node whose videopreview had no params
C5_Witness ==
  /\ Loaded /\ Completed(6) /\ args.motion_video = Str("custom.mp4")
  /\ IsDict(At(Widgets(Was, 568), "videopreview"))
  /\ At(At(Widgets(Was, 568), "videopreview"), "params") = None
  /\ At(At(At(Widgets(Now, 568), "videopreview"), "params"), "filename") = Str("custom.mp4")

----------------------------------------------------------------------------
\* C6: the output-prefix setter raises no error and, independently for the
\* preview (53) and final (205) node, sets filename_prefix to
\* "%date:yyyy-MM-dd%/<quality>/<motion>_<quality>/AD" when the node's
\* widgets_values is a mapping and leaves the node as it was when the field
\* is absent (it stays absent) or a list; it modifies no other node and no
\* other field.
C6_PrefixOnMappingsOnly ==
  [][(pc = "prefix" /\ ~Failed) =>
       /\ ~Failed'
       /\ Len(Now') = Len(Now)
       /\ \A i \in 1..Len(Now) :
            LET w == Get(Now[i].dict, "widgets_values") IN
            IF i \in {FirstIndex(Now, 53), FirstIndex(Now, 205)} /\ IsDict(w)
            THEN Now'[i] = Dict(Put(Now[i].dict, "widgets_values",
                     Dict(Put(w.dict, "filename_prefix",
                       Str("%date:yyyy-MM-dd%/" \o args.quality \o "/" \o args.motion
                             \o "_" \o args.quality \o "/AD")))))
            ELSE Now'[i] = Now[i]
    ]_vars

\* the setter has run for zoom/full where the preview node's widgets are a
\* mapping and the final node's are a list
C6_Witness ==
  /\ Loaded /\ Completed(8)
  /\ At(Widgets(Now, 53), "filename_prefix") = Str("%date:yyyy-MM-dd%/full/zoom_full/AD")
  /\ IsList(Widgets(Was, 205))
  /\ Widgets(Now, 205) = Widgets(Was, 205)

----------------------------------------------------------------------------
\* C7: after a successful orchestration run every top-level key other than
\* nodes has its input value, nodes has the same length and order, every
\* node whose id is not a recognized one is unchanged, and in each other node
\* every field but mode and widgets_values is unchanged, mode changing only
\* on nodes 53, 205, 219, 272.
C7_FrameOfRun ==
  workflow # None =>
    /\ ~Failed /\ Completed(8)
    /\ IsDict(workflow)
    /\ DOMAIN workflow.dict = DOMAIN inputFile.dict
    /\ \A k \in DOMAIN inputFile.dict : k # "nodes" => workflow.dict[k] = inputFile.dict[k]
    /\ Len(Nodes(workflow)) = Len(Was)
    /\ \A i \in 1..Len(Was) :
         LET old == Was[i].dict
             new == Nodes(workflow)[i].dict
         IN
         /\ Get(new, "id") = Get(old, "id")
         /\ (\A id \in AllIds : Get(old, "id") # Num(id)) => new = old
         /\ (DOMAIN new) \ {"mode", "widgets_values"} = (DOMAIN old) \ {"mode", "widgets_values"}
         /\ \A k \in (DOMAIN old) \ {"mode", "widgets_values"} : new[k] = old[k]
         /\ (\A id \in OutputIds : Get(old, "id") # Num(id)) => Get(new, "mode") = Get(old, "mode")
    /\ outputFile # None => outputFile = workflow

\* a command-line run that wrote its output, changed the document, and kept
\* the unrecognized node 999
C7_Witness ==
  /\ workflow # None /\ outputFile = workflow /\ workflow # inputFile
  /\ Present(Nodes(workflow), 999)
  /\ Mode(Nodes(workflow), 205) # Mode(Was, 205)

----------------------------------------------------------------------------
\* C8: applying motion settings with a preset name outside the five
\* enumerated ones fails with the unknown-preset error (KeyError) and leaves
\* every node as it was before the call, also when node 568, 125 or 256 is
\* absent (never NodeNotFound).
C8_UnknownPresetFirst ==
  [][(pc = "motion" /\ ~Failed /\ ~KnownMotion) =>
       (error'.type = "KeyError" /\ data' = data /\ pc' = "motion")]_vars

\* the unknown preset was rejected on a document without a motion-video node
C8_Witness ==
  /\ pc = "motion" /\ error.type = "KeyError" /\ ~KnownMotion
  /\ ~Present(Now, 568)

----------------------------------------------------------------------------
\* fields of node id that a step writes are as in the input
SameWidgets(id) == Widgets(Now, id) = Widgets(Was, id)

\* C9: the steps run in the order (a) start images, (b) end images,
\* (c) motion settings, (d) quality/mode, (e) output prefix; when a step
\* fails no later step has written anything (a failing quality step has
\* changed no mode, and no filename_prefix is written), the writes of the
\* earlier steps are in memory, and no document is returned.
C9_OrderAndAbort ==
  Loaded =>
    \* nothing of a step is written before the step is reached
    /\ \A id \in LoaderIds : ~Completed(LoaderStep(id)) => SameWidgets(id)
    /\ (~Completed(5) \/ (pc = "motion" /\ ~Failed)) =>
         SameWidgets(568) /\ SameWidgets(125) /\ SameWidgets(256)
    /\ ~Completed(7) => \A i \in 1..Len(Now) : Get(Now[i].dict, "mode") = Get(Was[i].dict, "mode")
    /\ ~Completed(7) => SameWidgets(53) /\ SameWidgets(205)
    \* what the completed steps wrote is in memory
    /\ \A id \in LoaderIds : Completed(LoaderStep(id)) => Elem(Widgets(Now, id), 1) = Str(PathFor(id))
    /\ Completed(6) =>
         /\ At(Widgets(Now, 568), "video") = ExpectedVideo
         /\ Elem(Widgets(Now, 125), 1) = ExpectedStrength
         /\ Elem(Widgets(Now, 256), 1) = ExpectedScale
    /\ Completed(7) => \A id \in OutputIds : Mode(Now, id) \in {Num(0), Num(2)}
    \* no document is returned by a run that failed
    /\ Failed => workflow = None
    /\ workflow # None => Completed(8)

\* an output-mode node is missing: steps (a)-(c) are applied in memory, no
\* mode and no filename_prefix has been written, nothing is returned
C9_Witness ==
  /\ Loaded /\ pc = "quality" /\ error = [type |-> "ValueError", node_id |-> 272]
  /\ Mode(Was, 53) = Num(4) /\ Mode(Now, 53) = Num(4)
  /\ Elem(Widgets(Now, 142), 1) = Str("start.png")
  /\ Elem(Widgets(Now, 256), 1) = Flt(115)
  /\ workflow = None

----------------------------------------------------------------------------
\* C10: lookup takes the first node in sequence order with the target id:
\* nodes sharing a recognized id do not make the run fail (NodeNotFound
\* is raised only for an id no node has), every write for the id lands on
\* the first such node, and every later node with that id is unchanged.
C10_FirstMatchWins ==
  Loaded =>
    /\ \A i \in 1..Len(Now) :
         (\E j \in 1..(i - 1) : IdOf(Was[j]) = IdOf(Was[i])) => Now[i] = Was[i]
    /\ error.type = "ValueError" => ~Present(Now, error.node_id)
    /\ (\A id \in AllIds : Present(Was, id)) => error.type # "ValueError"
    /\ (workflow # None /\ KnownMotion /\ args.quality \in {"sample", "full"}) =>
         MutationsApplied(workflow)

\* a run that returned a document in which two nodes share id 125, the
\* added one first
C10_Witness ==
  /\ workflow # None
  /\ \E i, j \in 1..Len(Was) :
       /\ i < j /\ IdOf(Was[i]) = Num(125) /\ IdOf(Was[j]) = Num(125)
       /\ Get(Was[i].dict, "type") = Str("Duplicate")
       /\ Nodes(workflow)[j] = Was[j]
       /\ Nodes(workflow)[i] # Was[i]

====
